---- MODULE Spec2Model ----
(***************************************************************************)
(* State-machine model of my-go-wasm-app/app/api/calculate/route.ts (the   *)
(* lazily initialised Go/Wasm module behind POST /api/calculate) and of    *)
(* the Go function `add` the module exports as globalThis.goAdd.           *)
(*                                                                         *)
(* JavaScript runs every callback to completion, so one action is one      *)
(* resumption of an async function up to its next suspension on I/O or on  *)
(* a timer.  A continuation that is only a promise-reaction away (the      *)
(* return of initializeWasm into POST, the throw of initializeWasm into    *)
(* POST's catch) runs in the same microtask drain as the callback that     *)
(* settled the promise, and is part of that callback's action.             *)
(***************************************************************************)
EXTENDS Integers, Sequences, FiniteSets, TLC

\* ---------------------------------------------------------------- bounds
NReq == 2          \* number of POST requests in one run
MaxInt == 1        \* request numbers range over -MaxInt..MaxInt
MaxWait == 100     \* readiness timeout (ms) used when several requests poll
MaxArgs == 3       \* a direct invocation of add passes 0..MaxArgs arguments

\* ------------------------------------------------------ program constants
timeout == 5000          \* route.ts:91
checkIntervalMs == 50    \* route.ts:92

Req == 1..NReq
NULL == 0

VARIABLES
    wasmInstance,        \* NULL or the id of the instance held (route.ts:39)
    goRuntimeInstance,   \* NULL or the id of the Go runtime object (route.ts:38)
    GoDefined,           \* typeof globalThis.Go !== 'undefined'
    goAdd,               \* NULL or the id of the module that registered globalThis.goAdd
    runTask,             \* per instance: state of the promise of goRuntimeInstance.run
    pc,                  \* per request: where POST is suspended
    elapsedTime,         \* per request: elapsedTime of its readiness wait
    initOutcome,         \* per request in flight: how `await initializeWasm()` ended
    initFailed,          \* some initialization attempt has failed (thrown)
    sent,                \* the response the last step sent, if it sent one: its
                         \* request, how that request's initialization ended,
                         \* the body the request carried, whether POST read it,
                         \* whether POST invoked g.goAdd, and the response
    scriptExecs,         \* executions of wasm_exec.js (new Function(...)())
    instances,           \* WebAssembly instances created
    direct               \* a direct invocation of the exported function (a unit
                         \* test of add): its arguments, whether it was made,
                         \* the value returned, and what lines 158-164 make of it

vars == <<wasmInstance, goRuntimeInstance, GoDefined, goAdd, runTask, pc,
          elapsedTime, initOutcome, initFailed, sent, scriptExecs,
          instances, direct>>

\* ------------------------------------------------------------ JS values
Num(n) == [t |-> "number", n |-> n, s |-> <<>>]
Str(s) == [t |-> "string", n |-> 0, s |-> s]
Undefined == [t |-> "undefined", n |-> 0, s |-> <<>>]

IsNumber(v) == v.t = "number"

\* s.startsWith(p), strings being sequences of tokens
StartsWith(s, p) == Len(s) >= Len(p) /\ SubSeq(s, 1, Len(p)) = p

Ints == (0 - MaxInt)..MaxInt
FieldValues == {Num(n) : n \in Ints} \cup {Str(<<"hello">>), Undefined}

\* what request.json() can produce: an object with fields a and b, the JSON
\* value null, or a rejection because the text is not JSON
NoBody == [kind |-> "none", a |-> Undefined, b |-> Undefined]
\* the two request bodies of the roadmap's API test
DocBodies == {[kind |-> "object", a |-> Num(15), b |-> Num(7)],
              [kind |-> "object", a |-> Str(<<"hello">>), b |-> Num(7)]}

Bodies == [kind : {"object"}, a : FieldValues, b : FieldValues]
            \cup {[kind |-> "null", a |-> Undefined, b |-> Undefined],
                  [kind |-> "badjson", a |-> Undefined, b |-> Undefined]}
            \cup DocBodies

\* the argument lists of a direct invocation: none to MaxArgs values
ArgLists == UNION {[1..n -> FieldValues] : n \in 0..MaxArgs}

\* a body POST answers without reading: no step depends on it, so one
\* numeric body and one with `a` missing stand for all of them
UnreadBodies == {bd \in Bodies : /\ bd.kind = "object"
                                  /\ bd.a \in {Num(0), Undefined}
                                  /\ bd.b = Num(0)}

\* the bodies of the requests that run concurrently: one of each kind
SampleBodies == UnreadBodies \cup {bd \in Bodies : bd.kind # "object"}

\* ------------------------------------------------------------ messages
\* (the Japanese texts of route.ts are written here in ASCII; a string is the
\* sequence of its tokens, the first token being its first word)
Marker == <<"Wasm-init-failed:">>
ErrScriptRead == <<"ENOENT:", "public/wasm_exec.js">>
ErrNoGo == <<"Go-constructor-not-found-on-globalThis">>
ErrBinaryRead == <<"ENOENT:", "public/main.go.wasm">>
ErrInstantiate == <<"CompileError:", "WebAssembly.instantiate()">>
ErrTimeout == <<"timeout:", "goAdd-not-available">>
ErrJson == <<"Unexpected", "token">>
ErrDestructure == <<"Cannot", "destructure">>
ErrGoExited == <<"Go", "program has already exited">>

MsgUnavailable == <<"Wasm-module-unavailable">>
MsgInvalidInput == <<"invalid-input-a-and-b-must-be-numbers">>
MsgInitFailed == <<"Wasm-module-initialization-failed">>
MsgInternal == <<"internal-server-error">>

\* ------------------------------------------------------------ responses
NoResp == [status |-> 0, error |-> <<>>, details |-> <<>>, result |-> Undefined]
Response(st, err, det, res) ==
    [status |-> st, error |-> err, details |-> det, result |-> res]
NoSent == [req |-> NULL, init |-> "none", body |-> NoBody, read |-> FALSE,
           called |-> FALSE, resp |-> NoResp]
NoDirect == [args |-> <<>>, called |-> FALSE, value |-> Undefined,
             resp |-> NoResp]

\* -------------------------------------------------------- main.go: add
\* the conversion with a truthiness test: 0 is taken for "not a number"
SafeIntNonZero(val) == IF val.t # "number" \/ val.n = 0 THEN [n |-> 0, ok |-> FALSE]
                       ELSE [n |-> val.n, ok |-> TRUE]

\* js.Value -> (int, bool)
SafeInt(val) == IF val.t # "number" THEN [n |-> 0, ok |-> FALSE]
                ELSE [n |-> val.n, ok |-> TRUE]

\* add rejecting only too few arguments
addAtLeastTwo(args) ==
    IF Len(args) < 2 THEN Str(<<"Invalid", "number of arguments">>)
    ELSE IF ~SafeInt(args[1]).ok THEN Str(<<"Argument", "1 is not a valid integer">>)
    ELSE IF ~SafeInt(args[2]).ok THEN Str(<<"Argument", "2 is not a valid integer">>)
    ELSE Num(SafeInt(args[1]).n + SafeInt(args[2]).n)

\* add with the operands subtracted
addMinus(args) ==
    IF Len(args) # 2 THEN Str(<<"Invalid", "number of arguments">>)
    ELSE IF ~SafeInt(args[1]).ok THEN Str(<<"Argument", "1 is not a valid integer">>)
    ELSE IF ~SafeInt(args[2]).ok THEN Str(<<"Argument", "2 is not a valid integer">>)
    ELSE Num(SafeInt(args[1]).n - SafeInt(args[2]).n)

add(args) ==
    IF Len(args) # 2 THEN Str(<<"Invalid", "number of arguments">>)
    ELSE IF ~SafeInt(args[1]).ok THEN Str(<<"Argument", "1 is not a valid integer">>)
    ELSE IF ~SafeInt(args[2]).ok THEN Str(<<"Argument", "2 is not a valid integer">>)
    ELSE Num(SafeInt(args[1]).n + SafeInt(args[2]).n)

\* ----------------------------------------------------------- route.ts
\* the readiness condition without its test of goAdd
NotReadyInstanceOnly(wi, ga) == wi = NULL

\* the condition of lines 128 and 135
NotReady(wi, ga) == wi = NULL \/ ga = NULL

\* the guard of line 47 never taken
InitializedNever(wi) == FALSE

\* the guard of initializeWasm (line 47): `if (wasmInstance)`
Initialized(wi) == wi # NULL

\* the constructor check left out
GoMissingIgnored(defined) == FALSE

\* the check of line 63: typeof g.Go === 'undefined'
GoMissing(defined) == ~defined

\* a catch block that answers initialization errors only and lets any other
\* exception escape POST (no response)
PostCatchInitOnly(msg) ==
    IF StartsWith(msg, Marker)
    THEN Response(500, MsgInitFailed, msg, Undefined)
    ELSE NoResp

\* POST's catch block (lines 166-181) applied to the message of the error
\* (every value thrown in the model is an Error, so errorMessage is its message)
PostCatch(msg) ==
    IF StartsWith(msg, Marker)
    THEN Response(500, MsgInitFailed, msg, Undefined)
    ELSE Response(500, MsgInternal, msg, Undefined)

\* the rethrown message without the marker
InitErrorBare(cause) == cause

\* the message of the error initializeWasm's catch block rethrows (line 120)
InitError(cause) == Marker \o cause

\* the timeout test with > for >=
TimedOutLate(e, tmo) == e > tmo

\* the timeout test of line 102
TimedOut(e, tmo) == e >= tmo

\* the mapping of goAdd's return value (lines 158-164)
MapResult(result) ==
    IF result.t = "string" /\ StartsWith(result.s, <<"Invalid">>)
    THEN Response(400, result.s, <<>>, Undefined)
    ELSE Response(200, <<>>, <<>>, result)

TypeOK ==
    /\ wasmInstance \in {NULL} \cup Req
    /\ goRuntimeInstance \in {NULL} \cup Req
    /\ GoDefined \in BOOLEAN
    /\ goAdd \in {NULL} \cup Req
    /\ runTask \in [Req -> {"none", "started", "parked", "rejected", "resolved"}]
    /\ pc \in [Req -> {"idle", "readScript", "readBinary", "instantiate",
                       "polling", "json", "done"}]
    /\ initOutcome \in [Req -> {"none", "skipped", "returned"}]
    /\ initFailed \in BOOLEAN
    /\ elapsedTime \in [Req -> 0..timeout]
    /\ sent.req \in {NULL} \cup Req
    /\ scriptExecs \in 0..NReq
    /\ instances \in 0..NReq
    /\ direct.args \in ArgLists
    /\ direct.called \in BOOLEAN

\* the module just loaded: nothing initialized, no request received
InitRoute ==
    /\ wasmInstance = NULL
    /\ goRuntimeInstance = NULL
    /\ GoDefined = FALSE
    /\ goAdd = NULL
    /\ runTask = [r \in Req |-> "none"]
    /\ pc = [r \in Req |-> "idle"]
    /\ elapsedTime = [r \in Req |-> 0]
    /\ initOutcome = [r \in Req |-> "none"]
    /\ initFailed = FALSE
    /\ sent = NoSent
    /\ scriptExecs = 0
    /\ instances = 0

Init == InitRoute /\ direct = NoDirect

\* a step in which POST returns nothing
NoResponse == sent' = NoSent

\* POST returns a response: it is sent, and the request is finished (the
\* locals of the invocation are released)
Respond(r, how, bd, rd, cl, response) ==
    /\ pc' = [pc EXCEPT ![r] = "done"]
    /\ initOutcome' = [initOutcome EXCEPT ![r] = "none"]
    /\ sent' = [req |-> r, init |-> how, body |-> bd, read |-> rd,
                called |-> cl, resp |-> response]

\* POST after `await initializeWasm()` returned (or was skipped): the check of
\* line 135, then either the 503 response or the call of request.json()
AfterInit(r, how) ==
    /\ IF NotReady(wasmInstance, goAdd)
       THEN \E bd \in UnreadBodies :
               Respond(r, how, bd, FALSE, FALSE,
                       Response(503, MsgUnavailable, <<>>, Undefined))
       ELSE /\ pc' = [pc EXCEPT ![r] = "json"]
            /\ initOutcome' = [initOutcome EXCEPT ![r] = how]
            /\ NoResponse
    /\ UNCHANGED initFailed

\* a failed attempt started again by the same request instead of answered
InitFailRetry(r, cause) ==
    /\ wasmInstance' = NULL
    /\ initFailed' = TRUE
    /\ pc' = [pc EXCEPT ![r] = "readScript"]
    /\ UNCHANGED initOutcome
    /\ NoResponse

\* initializeWasm's catch block (lines 115-121) followed by POST's (166-181)
InitFail(r, cause) ==
    /\ wasmInstance' = NULL
    /\ initFailed' = TRUE
    /\ \E bd \in UnreadBodies :
         Respond(r, "threw", bd, FALSE, FALSE, PostCatch(InitError(cause)))

\* POST's catch block clearing the instance
PostWritesReset == wasmInstance' = NULL /\ UNCHANGED <<goRuntimeInstance, goAdd>>

\* what the statements of POST itself (lines 125-182, initializeWasm apart)
\* assign to the module's variables and to globalThis.goAdd: nothing
PostWrites == UNCHANGED <<wasmInstance, goRuntimeInstance, goAdd>>

\* a step of initializeWasm's sequence that neither ends it nor answers
Continue == UNCHANGED <<initOutcome, initFailed>> /\ NoResponse

\* a request arrives: POST runs up to its first suspension
PostEnter(r) ==
    /\ pc[r] = "idle"
    /\ \A q \in Req : q < r => pc[q] # "idle"
    /\ IF NotReady(wasmInstance, goAdd)
       THEN IF Initialized(wasmInstance)
            THEN AfterInit(r, "returned")                       \* lines 47-50
            ELSE /\ pc' = [pc EXCEPT ![r] = "readScript"]       \* line 57
                 /\ Continue
       ELSE AfterInit(r, "skipped")
    /\ PostWrites
    /\ UNCHANGED <<GoDefined, runTask, elapsedTime, scriptExecs, instances,
                   direct>>

\* fs.readFile(wasm_exec.js) settles; the script runs; the Go constructor is
\* checked and used; fs.readFile(main.go.wasm) is started (lines 57-70)
ScriptRead(r) ==
    /\ pc[r] = "readScript"
    /\ \E out \in {"unreadable", "noGo", "definesGo"} :
         IF out = "unreadable"
         THEN /\ InitFail(r, ErrScriptRead)
              /\ UNCHANGED <<scriptExecs, GoDefined, goRuntimeInstance>>
         ELSE /\ scriptExecs' = scriptExecs + 1
              /\ GoDefined' = (GoDefined \/ out = "definesGo")
              /\ IF GoMissing(GoDefined')
                 THEN /\ InitFail(r, ErrNoGo)
                      /\ UNCHANGED goRuntimeInstance
                 ELSE /\ goRuntimeInstance' = r
                      /\ pc' = [pc EXCEPT ![r] = "readBinary"]
                      /\ UNCHANGED wasmInstance
                      /\ Continue
    /\ UNCHANGED <<goAdd, runTask, elapsedTime, instances, direct>>

\* fs.readFile(main.go.wasm) settles; WebAssembly.instantiate is started
BinaryRead(r) ==
    /\ pc[r] = "readBinary"
    /\ \E ok \in BOOLEAN :
         IF ok
         THEN /\ pc' = [pc EXCEPT ![r] = "instantiate"]
              /\ UNCHANGED wasmInstance
              /\ Continue
         ELSE InitFail(r, ErrBinaryRead)
    /\ UNCHANGED <<goRuntimeInstance, GoDefined, goAdd, runTask, elapsedTime,
                   scriptExecs, instances, direct>>

\* WebAssembly.instantiate settles; the instance is stored, run() is started
\* with its catch handler, and the poll interval is set (lines 74-110)
Instantiate(r) ==
    /\ pc[r] = "instantiate"
    /\ \E ok \in BOOLEAN :
         IF ok
         THEN /\ wasmInstance' = r
              /\ instances' = instances + 1
              /\ runTask' = [runTask EXCEPT ![r] = "started"]
              /\ elapsedTime' = [elapsedTime EXCEPT ![r] = 0]
              /\ pc' = [pc EXCEPT ![r] = "polling"]
              /\ Continue
         ELSE /\ InitFail(r, ErrInstantiate)
              /\ UNCHANGED <<instances, runTask, elapsedTime>>
    /\ UNCHANGED <<goRuntimeInstance, GoDefined, goAdd, scriptExecs, direct>>

\* the callback without clearInterval: the timer keeps firing after the wait
\* has settled
PollTickUncleared(r, tmo) ==
    /\ pc[r] \in {"polling", "json", "done"}
    /\ IF goAdd # NULL
       THEN /\ pc[r] = "polling"
            /\ AfterInit(r, "returned")
            /\ elapsedTime' = [elapsedTime EXCEPT ![r] = 0]
            /\ UNCHANGED wasmInstance
       ELSE IF TimedOut(elapsedTime[r] + checkIntervalMs, tmo)
            THEN /\ wasmInstance' = NULL
                 /\ elapsedTime' = [elapsedTime EXCEPT ![r] = 0]
                 /\ IF pc[r] = "polling"
                    THEN /\ initFailed' = TRUE
                         /\ \E bd \in UnreadBodies :
                              Respond(r, "threw", bd, FALSE, FALSE,
                                      PostCatch(InitError(ErrTimeout)))
                    ELSE UNCHANGED <<pc, initFailed>> /\ Continue
            ELSE /\ elapsedTime' = [elapsedTime EXCEPT ![r] = @ + checkIntervalMs]
                 /\ UNCHANGED <<wasmInstance, pc>>
                 /\ Continue
    /\ UNCHANGED <<goRuntimeInstance, GoDefined, goAdd, runTask,
                   scriptExecs, instances, direct>>

\* the callback with the timeout tested before the presence of goAdd
PollTickTimeoutFirst(r, tmo) ==
    /\ pc[r] = "polling"
    /\ IF TimedOut(elapsedTime[r] + checkIntervalMs, tmo)
       THEN /\ InitFail(r, ErrTimeout)
            /\ elapsedTime' = [elapsedTime EXCEPT ![r] = 0]
       ELSE IF goAdd # NULL
            THEN /\ AfterInit(r, "returned")
                 /\ elapsedTime' = [elapsedTime EXCEPT ![r] = 0]
                 /\ UNCHANGED wasmInstance
            ELSE /\ elapsedTime' = [elapsedTime EXCEPT ![r] = @ + checkIntervalMs]
                 /\ UNCHANGED <<wasmInstance, pc>>
                 /\ Continue
    /\ UNCHANGED <<goRuntimeInstance, GoDefined, goAdd, runTask,
                   scriptExecs, instances, direct>>

\* one callback of the setInterval of lines 95-110, with timeout tmo; the
\* closure of the wait (elapsedTime) is released when the wait settles
PollTick(r, tmo) ==
    /\ pc[r] = "polling"
    /\ IF goAdd # NULL
       THEN /\ AfterInit(r, "returned")
            /\ elapsedTime' = [elapsedTime EXCEPT ![r] = 0]
            /\ UNCHANGED wasmInstance
       ELSE IF TimedOut(elapsedTime[r] + checkIntervalMs, tmo)
            THEN /\ InitFail(r, ErrTimeout)
                 /\ elapsedTime' = [elapsedTime EXCEPT ![r] = 0]
            ELSE /\ elapsedTime' = [elapsedTime EXCEPT ![r] = @ + checkIntervalMs]
                 /\ UNCHANGED <<wasmInstance, pc>>
                 /\ Continue
    /\ UNCHANGED <<goRuntimeInstance, GoDefined, goAdd, runTask,
                   scriptExecs, instances, direct>>

\* main.go: main calls registerCallbacks and parks on the channel
ModuleRegister(m) ==
    /\ runTask[m] = "started"
    /\ goAdd' = m
    /\ runTask' = [runTask EXCEPT ![m] = "parked"]
    /\ Continue
    /\ UNCHANGED <<wasmInstance, goRuntimeInstance, GoDefined, pc, elapsedTime,
                   scriptExecs, instances, direct>>

\* the promise of run() rejects: the catch handler of lines 82-86 runs
RunReject(m) ==
    /\ runTask[m] \in {"started", "parked"}
    /\ runTask' = [runTask EXCEPT ![m] = "rejected"]
    /\ wasmInstance' = NULL
    /\ Continue
    /\ UNCHANGED <<goRuntimeInstance, GoDefined, goAdd, pc, elapsedTime,
                   scriptExecs, instances, direct>>

\* the promise of run() resolves (the Go program exited): no handler
RunResolve(m) ==
    /\ runTask[m] \in {"started", "parked"}
    /\ runTask' = [runTask EXCEPT ![m] = "resolved"]
    /\ Continue
    /\ UNCHANGED <<wasmInstance, goRuntimeInstance, GoDefined, goAdd, pc,
                   elapsedTime, scriptExecs, instances, direct>>

\* what a call of globalThis.goAdd(a, b) does: the module's add while the Go
\* program runs; once it has ended the call may also throw
GoAddResults(a, b) ==
    {[threw |-> FALSE, value |-> add(<<a, b>>)]}
      \cup (IF runTask[goAdd] \in {"rejected", "resolved"}
            THEN {[threw |-> TRUE, value |-> Str(ErrGoExited)]}
            ELSE {})

\* the type check left to the Go side
InvalidInputNone(a, b) == FALSE

\* the type check with && for ||
InvalidInputBoth(a, b) == ~IsNumber(a) /\ ~IsNumber(b)

\* the type check of line 148
InvalidInput(a, b) == ~IsNumber(a) \/ ~IsNumber(b)

\* request.json() settles with one of `bodies`; validation, the goAdd call
\* and the response (lines 144-164, and the catch block for what throws)
BodyRead(r, bodies) ==
    /\ pc[r] = "json"
    /\ \E bd \in bodies :
         IF bd.kind = "badjson"
         THEN Respond(r, initOutcome[r], bd, TRUE, FALSE, PostCatch(ErrJson))
         ELSE IF bd.kind = "null"
         THEN Respond(r, initOutcome[r], bd, TRUE, FALSE, PostCatch(ErrDestructure))
         ELSE IF InvalidInput(bd.a, bd.b)
         THEN Respond(r, initOutcome[r], bd, TRUE, FALSE,
                      Response(400, MsgInvalidInput, <<>>, Undefined))
         ELSE \E res \in GoAddResults(bd.a, bd.b) :
                Respond(r, initOutcome[r], bd, TRUE, TRUE,
                        IF res.threw THEN PostCatch(res.value.s)
                        ELSE MapResult(res.value))
    /\ PostWrites
    /\ UNCHANGED <<GoDefined, runTask, elapsedTime, initFailed, scriptExecs,
                   instances, direct>>

\* requests that interleave at every suspension point, with a short
\* readiness timeout and one body of each kind
Next ==
    \/ \E r \in Req : PostEnter(r)
    \/ \E r \in Req : ScriptRead(r)
    \/ \E r \in Req : BinaryRead(r)
    \/ \E r \in Req : Instantiate(r)
    \/ \E r \in Req : PollTick(r, MaxWait)
    \/ \E r \in Req : ModuleRegister(r)
    \/ \E r \in Req : RunReject(r)
    \/ \E r \in Req : RunResolve(r)
    \/ \E r \in Req : BodyRead(r, SampleBodies)

Spec == Init /\ [][Next]_vars

\* requests served one after the other, with the timeout of route.ts and
\* every body
NoneInFlight == \A q \in Req : pc[q] \in {"idle", "done"}

NextSeq ==
    \/ \E r \in Req : NoneInFlight /\ PostEnter(r)
    \/ \E r \in Req : ScriptRead(r)
    \/ \E r \in Req : BinaryRead(r)
    \/ \E r \in Req : Instantiate(r)
    \/ \E r \in Req : PollTick(r, timeout)
    \/ \E r \in Req : ModuleRegister(r)
    \/ \E r \in Req : RunReject(r)
    \/ \E r \in Req : RunResolve(r)
    \/ \E r \in Req : BodyRead(r, Bodies)

SpecSeq == Init /\ [][NextSeq]_vars

\* the event loop runs every timer callback and every settled I/O callback
FairSeq ==
    /\ SpecSeq
    /\ \A r \in Req : WF_vars(PollTick(r, timeout))

\* every callback of a settled file read, instantiation or body read runs too
FairIO ==
    /\ FairSeq
    /\ \A r \in Req : /\ WF_vars(ScriptRead(r))
                      /\ WF_vars(BinaryRead(r))
                      /\ WF_vars(Instantiate(r))
                      /\ WF_vars(BodyRead(r, Bodies))

\* the exported function invoked directly with an argument list, as a unit
\* test of add does, and its return value put through the result check of
\* lines 158-164
InitAdd ==
    /\ InitRoute
    /\ \E args \in ArgLists : direct = [NoDirect EXCEPT !.args = args]

AddCall ==
    /\ ~direct.called
    /\ direct' = [direct EXCEPT !.called = TRUE,
                                !.value = add(direct.args),
                                !.resp = MapResult(add(direct.args))]
    /\ UNCHANGED <<wasmInstance, goRuntimeInstance, GoDefined, goAdd, runTask,
                   pc, elapsedTime, initOutcome, initFailed, sent, scriptExecs,
                   instances>>

NextAdd == AddCall

SpecAdd == InitAdd /\ [][NextAdd]_vars

\* ------------------------------------------------------------ claims
Live(m) == runTask[m] \in {"started", "parked"}
Ended(m) == runTask[m] \in {"rejected", "resolved"}
Responded == sent.req # NULL
InvalidBody(bd) == bd.kind = "object" /\ (bd.a.t # "number" \/ bd.b.t # "number")
NumericBody(bd) == bd.kind = "object" /\ bd.a.t = "number" /\ bd.b.t = "number"
InitCauses == {ErrScriptRead, ErrNoGo, ErrBinaryRead, ErrInstantiate, ErrTimeout}

\* C1: as long as no initialization attempt has failed, the bootstrap script
\* has been executed at most once and at most one instance has been created,
\* however the requests interleave.
C1_SingleInit == ~initFailed => (scriptExecs <= 1 /\ instances <= 1)

\* C2: when POST has invoked goAdd, wasmInstance is non-null and goAdd is a
\* function (the step that invokes goAdd writes neither).
C2_ReadyAtCall == sent.called => (wasmInstance # NULL /\ goAdd # NULL)

\* C3: a failed attempt leaves wasmInstance null; a POST that arrives while
\* wasmInstance is null starts the sequence at the script read; and when the
\* readiness wait of an attempt that follows a failed attempt resolves, its
\* own background task still running and no other request in flight, POST
\* finds the module Ready and goes on to read the body.
C3_ResetOnFailure ==
    [][/\ (sent'.req # NULL /\ sent'.init = "threw") => wasmInstance' = NULL
       /\ \A r \in Req :
            /\ (pc[r] = "idle" /\ pc'[r] # "idle" /\ wasmInstance = NULL)
                  => pc'[r] = "readScript"
            /\ (/\ pc[r] = "polling" /\ pc'[r] # "polling" /\ goAdd # NULL
                /\ initFailed /\ Live(r))
                  => pc'[r] = "json"]_vars

\* C4: a readiness wait is left waiting by at most timeout/interval - 1 ticks;
\* the tick that brings elapsedTime to the timeout while goAdd is absent ends
\* the attempt in a failure with wasmInstance null and the timeout message;
\* and every wait ends.
C4_TimeoutBound ==
    /\ [](\A r \in Req : pc[r] = "polling"
                => elapsedTime[r] <= timeout - checkIntervalMs)
    /\ [][\A r \in Req :
            (/\ pc[r] = "polling" /\ goAdd = NULL
             /\ elapsedTime[r] = timeout - checkIntervalMs
             /\ <<pc[r], elapsedTime[r]>> # <<pc'[r], elapsedTime'[r]>>)
              => /\ pc'[r] = "done" /\ wasmInstance' = NULL
                 /\ sent'.req = r /\ sent'.init = "threw"
                 /\ sent'.resp.status = 500
                 /\ sent'.resp.details = InitError(ErrTimeout)]_vars
    /\ \A r \in Req : (pc[r] = "polling") ~> (pc[r] # "polling")

C4_Witness ==
    /\ sent.init = "threw" /\ sent.resp.details = InitError(ErrTimeout)
    /\ wasmInstance = NULL

\* C5 as stated: a request whose body has a or b missing or not a number is
\* answered 400 and goAdd is not invoked for it, whatever the module's state.
C5_Always400 ==
    (Responded /\ InvalidBody(sent.body))
        => (sent.resp.status = 400 /\ ~sent.called)

\* C5 as amended: for a request whose body has a or b missing or not a number
\* goAdd is never invoked; it is answered 400 with the validation message
\* whenever POST reads its body (the module was callable at the check of line
\* 135), and 503 or 500 without its body being read otherwise.
C5_Invalid400WhenRead ==
    (Responded /\ InvalidBody(sent.body))
        => /\ ~sent.called
           /\ sent.read => (sent.resp.status = 400 /\ sent.resp.error = MsgInvalidInput)
           /\ ~sent.read => sent.resp.status \in {503, 500}

C5_Witness ==
    /\ sent.read /\ sent.init = "returned" /\ sent.resp.status = 400
    /\ sent.body.a = Str(<<"hello">>) /\ sent.body.b = Num(1)

\* C6: a POST with integers a and b that invokes goAdd while the module's Go
\* program runs is answered 200 with result a + b.
C6_Sum ==
    (sent.called /\ NumericBody(sent.body) /\ Live(goAdd))
        => /\ sent.resp.status = 200
           /\ sent.resp.result = Num(sent.body.a.n + sent.body.b.n)

C6_Witness ==
    /\ sent.called /\ sent.init = "skipped" /\ Live(goAdd)
    /\ sent.body.a = Num(0 - 1) /\ sent.body.b = Num(1)
    /\ sent.resp.status = 200 /\ sent.resp.result = Num(0)

\* C7: once every request is answered and every background task has ended,
\* wasmInstance is null if some task ended (each end was observed and demoted
\* the state).
C7_EndDemotes ==
    (/\ \A r \in Req : pc[r] = "done"
     /\ \A m \in Req : ~Live(m)
     /\ \E m \in Req : Ended(m))
        => wasmInstance = NULL

\* C8: a POST that arrives while the module is not Ready (wasmInstance null or
\* goAdd absent) starts the initialization sequence: it neither answers nor
\* goes on to the body in its arrival step.
C8_FullSequence ==
    [][\A r \in Req :
         (pc[r] = "idle" /\ pc'[r] # "idle" /\ (wasmInstance = NULL \/ goAdd = NULL))
            => pc'[r] = "readScript"]_vars

\* C9: a response to a request whose initialization threw is 500 with the
\* initialization message and details that start with the marker and carry
\* the cause; any other 500 carries the general message and details that do
\* not start with the marker.
C9_Messages ==
    Responded =>
        /\ sent.init = "threw" =>
              /\ sent.resp.status = 500 /\ sent.resp.error = MsgInitFailed
              /\ StartsWith(sent.resp.details, Marker)
              /\ \E c \in InitCauses : sent.resp.details = Marker \o c
        /\ (sent.init # "threw" /\ sent.resp.status = 500) =>
              /\ sent.resp.error = MsgInternal
              /\ ~StartsWith(sent.resp.details, Marker)

C9_Witness ==
    /\ sent.init = "threw" /\ sent.resp.status = 500
    /\ sent.resp.details = Marker \o ErrBinaryRead

\* C10: a 503 is sent only to a request whose initialization did not throw,
\* without its body read or goAdd invoked; and the step in which a request
\* passes the check of line 135 answers 503 exactly when wasmInstance is null
\* or goAdd is absent at that check.
C10_Unavailable ==
    /\ [](sent.resp.status = 503
            => (sent.init \in {"skipped", "returned"} /\ ~sent.read /\ ~sent.called))
    /\ [][\A r \in Req :
            (\/ pc[r] = "idle" /\ pc'[r] \in {"json", "done"}
             \/ pc[r] = "polling" /\ pc'[r] # "polling" /\ goAdd # NULL)
              => ((sent'.req = r /\ sent'.resp.status = 503)
                    <=> (wasmInstance = NULL \/ goAdd = NULL))]_vars

C10_Witness == sent.resp.status = 503 /\ sent.init = "returned" /\ ~sent.read

\* C11: a POST that arrives while wasmInstance is non-null returns from (or
\* skips) initializeWasm in its arrival step: it is not left in the sequence,
\* the script is not executed, no instance or runtime object is created, and
\* wasmInstance, the Go constructor and goAdd are unchanged; when goAdd is
\* registered too, initializeWasm is not called at all; and a request that
\* went on to its body never enters the sequence afterwards.
C11_Idempotent ==
    [][\A r \in Req :
         /\ (pc[r] = "idle" /\ pc'[r] # "idle" /\ wasmInstance # NULL)
              => /\ pc'[r] \in {"json", "done"}
                 /\ UNCHANGED <<wasmInstance, goRuntimeInstance, GoDefined,
                                goAdd, runTask, scriptExecs, instances>>
                 /\ goAdd # NULL
                      => (pc'[r] = "json" /\ initOutcome'[r] = "skipped")
         /\ pc[r] = "json" => pc'[r] \in {"json", "done"}]_vars

C11_Witness ==
    /\ pc[2] = "json" /\ initOutcome[2] = "skipped"
    /\ pc[1] = "done" /\ wasmInstance = 1 /\ goAdd = 1
    /\ scriptExecs = 1 /\ instances = 1

\* C12: when an initialization attempt has failed, everything it wrote is back
\* to its uninitialized value: wasmInstance is null, goRuntimeInstance does not
\* hold the runtime object the attempt built, and goAdd is not a function the
\* attempt's module registered.
C12_NoPartialState ==
    (Responded /\ sent.init = "threw")
        => /\ wasmInstance = NULL
           /\ goRuntimeInstance # sent.req
           /\ goAdd # sent.req

\* C13: a request enters the initialization sequence only in its arrival step
\* and moves through it forwards only (it calls initializeWasm at most once);
\* a step of the sequence either advances it or ends the request, and the step
\* that ends a request sends its response; an answered request takes no
\* further step.
C13_NoRetry ==
    [][\A r \in Req :
         /\ pc'[r] # pc[r] =>
               \/ pc[r] = "idle" /\ pc'[r] \in {"readScript", "json", "done"}
               \/ pc[r] = "readScript" /\ pc'[r] \in {"readBinary", "done"}
               \/ pc[r] = "readBinary" /\ pc'[r] \in {"instantiate", "done"}
               \/ pc[r] = "instantiate" /\ pc'[r] \in {"polling", "done"}
               \/ pc[r] = "polling" /\ pc'[r] \in {"json", "done"}
               \/ pc[r] = "json" /\ pc'[r] = "done"
         /\ (pc'[r] = "done" /\ pc[r] # "done")
               => (sent'.req = r /\ sent'.resp.status \in {200, 400, 500, 503})
         /\ (sent'.req = r /\ sent'.init = "threw")
               => (pc[r] \in {"readScript", "readBinary", "instantiate", "polling"}
                   /\ pc'[r] = "done")]_vars

C13_Witness ==
    /\ Responded /\ sent.init = "threw" /\ pc[sent.req] = "done"
    /\ sent.resp.details = InitError(ErrInstantiate)
    /\ scriptExecs = 1 /\ instances = 0

\* C14: a direct invocation of add with a number of arguments other than two
\* (none, one, three or more, whatever their values) returns the string
\* "Invalid number of arguments"; it returns, it does not throw.
C14_ArgCount ==
    (direct.called /\ Len(direct.args) # 2)
        => /\ direct.value = Str(<<"Invalid", "number of arguments">>)
           /\ StartsWith(direct.value.s, <<"Invalid">>)

C14_Witness ==
    /\ direct.called /\ Len(direct.args) = 3
    /\ direct.args[1] = Num(1) /\ direct.args[2] = Num(1)
    /\ direct.value = Str(<<"Invalid", "number of arguments">>)

\* C15: every string add returns (each is an error value) begins with
\* "Invalid", the prefix the result check of lines 158-164 tests, so that check
\* maps it to a 400 response carrying the string and never to a 200 result.
C15_ErrorsMarked ==
    (direct.called /\ direct.value.t = "string")
        => /\ StartsWith(direct.value.s, <<"Invalid">>)
           /\ direct.resp.status = 400
           /\ direct.resp.error = direct.value.s

\* C16: on a cold process, as long as no initialization attempt has failed and
\* no background task has ended (the files were readable, instantiation
\* succeeded, goAdd was registered before the timeout), a request that ran the
\* initialization sequence and carries numbers a and b is answered 200 with
\* result a + b; and every request that starts the sequence is eventually
\* answered so, or a fault has occurred.
Fault == initFailed \/ \E m \in Req : Ended(m)

C16_ColdStart ==
    /\ []((Responded /\ sent.init = "returned" /\ NumericBody(sent.body) /\ ~Fault)
            => /\ sent.read /\ sent.called /\ sent.resp.status = 200
               /\ sent.resp.result = Num(sent.body.a.n + sent.body.b.n))
    /\ \A r \in Req :
         (pc[r] = "readScript")
            ~> (\/ Fault
                \/ /\ sent.req = r /\ sent.init = "returned"
                   /\ NumericBody(sent.body) => sent.resp.status = 200)

C16_Witness ==
    /\ sent.req = 1 /\ sent.init = "returned" /\ ~Fault
    /\ sent.body = [kind |-> "object", a |-> Num(15), b |-> Num(7)]
    /\ sent.resp.status = 200 /\ sent.resp.result = Num(22)

\* C17: the steps of POST itself (its arrival with the readiness check, and
\* the body read with validation, goAdd call, response and error mapping)
\* leave wasmInstance, goRuntimeInstance and goAdd unchanged; every step that
\* changes one of them is a step of a request inside initializeWasm's sequence
\* or of a callback initializeWasm registered (the background task).
C17_OnlyInitWrites ==
    [][/\ \A r \in Req :
            (\/ pc[r] = "idle" /\ pc'[r] # "idle"
             \/ pc[r] = "json" /\ pc'[r] # "json")
              => UNCHANGED <<wasmInstance, goRuntimeInstance, goAdd>>
       /\ <<wasmInstance, goRuntimeInstance, goAdd>>'
             # <<wasmInstance, goRuntimeInstance, goAdd>>
              => \/ \E r \in Req :
                      /\ pc[r] \in {"readScript", "readBinary", "instantiate",
                                    "polling"}
                      /\ pc'[r] # pc[r]
                 \/ runTask' # runTask]_vars

C17_Witness ==
    /\ Responded /\ sent.read /\ sent.body.kind = "badjson"
    /\ sent.resp.status = 500 /\ sent.resp.error = MsgInternal
    /\ wasmInstance = sent.req /\ goRuntimeInstance = sent.req /\ goAdd = sent.req

\* C18 as stated: the request body {"a": "hello", "b": 7} is answered with the
\* error of add's own validation, "Argument 1 is not a valid integer".
HelloBody == [kind |-> "object", a |-> Str(<<"hello">>), b |-> Num(7)]

FailStep(r) ==
    /\ ScriptRead(r) \/ BinaryRead(r) \/ Instantiate(r)
    /\ sent'.req = r /\ sent'.init = "threw" /\ wasmInstance' = NULL

C19_StepOrder ==
    /\ [](/\ goRuntimeInstance # NULL => GoDefined
          /\ wasmInstance # NULL => instances >= 1
          /\ \A r \in Req :
               /\ runTask[r] # "none" => pc[r] \in {"polling", "json", "done"}
               /\ pc[r] = "polling" => runTask[r] # "none"
               /\ pc[r] \in {"readBinary", "instantiate"} => GoDefined
               /\ pc[r] \in {"readScript", "readBinary", "instantiate"}
                     => ENABLED FailStep(r)
               /\ (pc[r] = "polling" /\ Live(r))
                     => ENABLED (RunReject(r) /\ wasmInstance' = NULL))
    /\ [][\A r \in Req :
            /\ (wasmInstance' = r /\ wasmInstance # r)
                 => /\ pc[r] = "instantiate" /\ pc'[r] = "polling"
                    /\ instances' = instances + 1
                    /\ runTask[r] = "none" /\ runTask'[r] = "started"
            /\ (runTask[r] = "none" /\ runTask'[r] # "none")
                 => (pc[r] = "instantiate" /\ wasmInstance' = r)
            /\ (pc[r] = "readScript" /\ pc'[r] # "readScript")
                 => IF GoDefined'
                    THEN \/ pc'[r] = "readBinary" /\ goRuntimeInstance' = r
                         \/ pc'[r] = "done" /\ scriptExecs' = scriptExecs
                    ELSE /\ pc'[r] = "done" /\ wasmInstance' = NULL
                         /\ sent'.req = r /\ sent'.init = "threw"
                         /\ UNCHANGED <<goRuntimeInstance, instances, runTask>>
            /\ (pc[r] = "readBinary" /\ pc'[r] # "readBinary")
                 => pc'[r] \in {"instantiate", "done"}
            /\ (pc[r] = "polling" /\ pc'[r] = "json") => goAdd # NULL]_vars

C19_Witness ==
    /\ Responded /\ sent.init = "threw"
    /\ sent.resp.details = InitError(ErrNoGo)
    /\ scriptExecs = 1 /\ ~GoDefined /\ goRuntimeInstance = NULL
    /\ wasmInstance = NULL /\ instances = 0

\* C20: every tick of a readiness wait that finds goAdd registered resolves
\* the wait (so the first such tick does), the tick at which the elapsed time
\* would reach the timeout included; and a tick that finds goAdd absent never
\* resolves it: it leaves the request waiting or rejects.
Ticked(r) ==
    /\ pc[r] = "polling"
    /\ <<pc'[r], elapsedTime'[r]>> # <<pc[r], elapsedTime[r]>>

C20_FoundFirst ==
    [][\A r \in Req :
         Ticked(r) =>
            IF goAdd # NULL
            THEN /\ pc'[r] \in {"json", "done"}
                 /\ pc'[r] = "done" => (sent'.req = r /\ sent'.init = "returned")
                 /\ UNCHANGED <<wasmInstance, initFailed>>
            ELSE \/ pc'[r] = "polling" /\ elapsedTime'[r] = elapsedTime[r] + checkIntervalMs
                 \/ /\ pc'[r] = "done" /\ sent'.req = r /\ sent'.init = "threw"
                    /\ elapsedTime[r] + checkIntervalMs >= timeout]_vars

C20_Witness ==
    /\ pc[1] = "polling" /\ elapsedTime[1] = timeout - checkIntervalMs
    /\ goAdd = 1 /\ wasmInstance = 1 /\ ENABLED PollTick(1, timeout)

\* C21: when the readiness wait of an attempt resolves while wasmInstance
\* holds an instance (the attempt completes successfully), the goAdd it found
\* was registered by the module instance that wasmInstance holds.
C21_ValidTogether ==
    [][\A r \in Req :
         (/\ pc[r] = "polling" /\ pc'[r] # "polling"
          /\ goAdd # NULL /\ wasmInstance # NULL)
            => goAdd = wasmInstance]_vars

\* C22: a failure of one attempt (the rejection of its background task, its
\* poll timeout, a throw caught by its catch block) does not set wasmInstance
\* to null while wasmInstance holds the instance of another attempt whose
\* background task is running.
HeldByOther(m) == wasmInstance \notin {NULL, m} /\ Live(wasmInstance)

C22_NoForeignDemotion ==
    [][\A m \in Req :
         (/\ HeldByOther(m)
          /\ \/ Live(m) /\ runTask'[m] = "rejected"
             \/ sent'.req = m /\ sent'.init = "threw")
            => wasmInstance' = wasmInstance]_vars

\* C23: every request is answered exactly once, with status 200, 400, 503 or
\* 500: a response to a request is sent in the step that ends it and in no
\* other, an ended request takes no further step, and every request that has
\* arrived is eventually ended (the file reads, the instantiation and the body
\* read returning, the only wait being the bounded readiness poll).
C23_OneResponse ==
    /\ [](Responded => /\ pc[sent.req] = "done"
                       /\ sent.resp.status \in {200, 400, 503, 500})
    /\ [][\A r \in Req :
            /\ (pc'[r] = "done" /\ pc[r] # "done") <=> (sent'.req = r /\ sent' # sent)
            /\ pc[r] = "done" => pc'[r] = "done"]_vars
    /\ \A r \in Req : (pc[r] # "idle") ~> (pc[r] = "done")

C23_Witness ==
    /\ \A r \in Req : pc[r] = "done"
    /\ sent.req = NReq /\ sent.init = "returned" /\ sent.resp.status = 500
    /\ sent.body.kind = "null" /\ sent.resp.details = ErrDestructure

\* C24: a request starts one readiness wait, in the step in which its
\* instantiation succeeds; the timer of a wait runs only while the request
\* waits (outside the wait its elapsedTime stays 0); the tick that settles the
\* wait is its last; and wasmInstance is set to null only by the failing step
\* of a request inside the sequence or by the end of a background task, never
\* by a tick of a wait that has settled.
InSequence(r) == pc[r] \in {"readScript", "readBinary", "instantiate", "polling"}

C24_SettlesOnce ==
    /\ [](\A r \in Req : pc[r] # "polling" => elapsedTime[r] = 0)
    /\ [][/\ \A r \in Req :
               /\ (pc'[r] = "polling" /\ pc[r] # "polling") => pc[r] = "instantiate"
               /\ (pc[r] = "polling" /\ pc'[r] # "polling")
                     => (pc'[r] \in {"json", "done"} /\ elapsedTime'[r] = 0)
               /\ pc[r] \in {"json", "done"}
                     => /\ elapsedTime'[r] = elapsedTime[r]
                        /\ ~(sent' # sent /\ sent'.req = r /\ sent'.init = "threw")
          /\ (wasmInstance # NULL /\ wasmInstance' = NULL)
                => \/ \E q \in Req : /\ InSequence(q) /\ pc'[q] = "done"
                                     /\ sent'.req = q /\ sent'.init = "threw"
                   \/ \E m \in Req : Live(m) /\ runTask'[m] = "rejected"]_vars

C24_Witness ==
    /\ sent.req = 1 /\ sent.init = "threw" /\ pc[1] = "done"
    /\ sent.resp.details = InitError(ErrTimeout)
    /\ elapsedTime[1] = 0 /\ ~ENABLED PollTick(1, MaxWait)
    /\ pc[2] = "polling" /\ elapsedTime[2] = checkIntervalMs

====
